---- MODULE Spec2Model ----
(***************************************************************************)
(* Pick-session and pick-visibility logic of the cfb-pick-em client.       *)
(*                                                                         *)
(* Two screens are modelled:                                               *)
(*   - LeagueSlateScreen (slate.tsx): the pick session.  Every async       *)
(*     handler is split at its awaits; the part that runs after an await   *)
(*     still sees the React state captured by the render in which the      *)
(*     handler was created (its closure), which the model stores in the    *)
(*     pending call.                                                       *)
(*   - MemberPicksScreen (member-picks/[userId].tsx): pick visibility.     *)
(* Times are whole hours of local time, counted from a Sunday 00:00.       *)
(***************************************************************************)
EXTENDS Integers, Sequences, FiniteSets, TLC

VARIABLES
    \* ---- LeagueSlateScreen state (useState hooks) ----
    league,          \* LeagueWithRole | null
    gamesWithLines,  \* per game: the existingPick of its GameWithLine
    picks,           \* the submitted picks as last fetched
    tempPicks,       \* the temporary picks, in selection order
    loading,
    submitting,
    currentWeek,
    \* ---- handlers of the slate screen that are suspended at an await ----
    pickCalls,       \* handlePickSide calls waiting for auth.getUser
    prompts,         \* 'All Picks Selected!' prompts scheduled or showing
    submitCalls,     \* submitAllPicks calls in flight
    loadCalls,       \* loadSlateAndPicks calls in flight
    leagueCalls,     \* number of loadLeague calls in flight
    clearDialog,     \* the 'Clear Selections' confirmation is showing
    lastAlert,       \* outcome of the last handler step (Alert title or none)
    taps,            \* number of user gestures on the slate screen so far
    \* ---- the remote data service ----
    db,              \* picks table: the rows of this league/user/season/week
    serverLimit,     \* leagues.pick_limit of this league (0: not set)
    \* ---- wall clock ----
    now,
    \* ---- MemberPicksScreen ----
    viewer,          \* id of the signed-in user ("null": nobody)
    memberDb,        \* picks of the member whose page is shown
    currentUserId,
    weeklyPicks,
    mLoading,
    mCalls,          \* pending getCurrentUser / fetchMemberPicks
    mAlert,          \* last Alert of the member-picks screen
    \* ---- LeagueMyPicksScreen ----
    myDb,            \* picks table: the rows of the signed-in user
    myWeeklyPicks,   \* weeklyPicks of the screen
    myLoading,       \* loading of the screen
    myCalls,         \* number of fetchPicks calls in flight
    deleteDialog,    \* the picks whose 'Delete Pick' confirmation is showing
    deleteCalls,     \* delete requests in flight
    myAlert          \* last Alert of the my-picks screen

slateVars == <<league, gamesWithLines, picks, tempPicks, loading, submitting,
               currentWeek,
               pickCalls, prompts, submitCalls, loadCalls, leagueCalls,
               clearDialog, lastAlert, taps, db, serverLimit>>
memberVars == <<viewer, memberDb, currentUserId, weeklyPicks, mLoading, mCalls,
                mAlert>>
myPicksVars == <<myDb, myWeeklyPicks, myLoading, myCalls, deleteDialog,
                 deleteCalls, myAlert>>
vars == <<slateVars, memberVars, myPicksVars, now>>

-----------------------------------------------------------------------------
(* Bounds *)
MaxPickCalls == 2
MaxLoadCalls == 1
MaxSubmitCalls == 2
MaxTaps == 4
MaxMemberTicks == 4
MaxUnlockDays == 5
MaxWeek == 2
MaxFetchCalls == 2

(* Program constants *)
DefaultPickLimit == 5
HoursPerDay == 24
DaysPerWeek == 7
SaturdayIndex == 6
UnlockHour == 12
EtOffsetHours == 5
FirstWeek == 1
LastWeek == 15

Games == {"g1", "g2", "g3", "g4"}
Sides == {"HOME", "AWAY"}
PickLimits == {0, 1, 2}
Null == "null"
NoUnlock == -1
\* undefined (no pick), and the marker of a game that is not in the list
NoPick == [game_id |-> "none", week |-> 0, side |-> "none", line_value |-> 0,
           unlock_at |-> NoUnlock, locked |-> FALSE]
NotListed == [game_id |-> "notlisted", week |-> 0, side |-> "none",
              line_value |-> 0, unlock_at |-> NoUnlock, locked |-> FALSE]
\* league === null
NullLeague == [loaded |-> FALSE, pick_limit |-> 0]
\* a picks table without rows; a loadSlateAndPicks call that has not read yet
EmptyTable == {}
HoursPerWeek == HoursPerDay * DaysPerWeek
PendingLoad(week) == [fetched |-> FALSE, rows |-> EmptyTable, week |-> week]

\* the week whose slate is published (the slates of the other weeks are empty)
SlateWeek == FirstWeek
SlateStart == 2 * HoursPerDay + 12

-----------------------------------------------------------------------------
(* Pure helpers of LeagueSlateScreen *)

\* league_slate_lines of the week: spread_home and spread_away of each game
\* (NoSpread: null), and lines_available (FALSE: a schedule preview)
NoSpread == 0
SlateLines ==
    [g \in Games |->
        CASE g = "g1" -> [spread_home |-> -3, spread_away |-> 3,
                          lines_available |-> TRUE]
          [] g = "g2" -> [spread_home |-> 7, spread_away |-> NoSpread,
                          lines_available |-> TRUE]
          [] g = "g3" -> [spread_home |-> NoSpread, spread_away |-> -1,
                          lines_available |-> TRUE]
          [] OTHER    -> [spread_home |-> -10, spread_away |-> 10,
                          lines_available |-> FALSE]]

\* game.kickoff: g1 and g4 on Saturday 12:00, g2 on Saturday 19:00, g3 on the
\* Monday after, 20:00
Kickoff ==
    [g \in Games |->
        CASE g = "g2" -> SaturdayIndex * HoursPerDay + 19
          [] g = "g3" -> HoursPerWeek + HoursPerDay + 20
          [] OTHER    -> SaturdayIndex * HoursPerDay + 12]

\* GameCard: isGameStarted = kickoffDate <= new Date()
isGameStarted(g, t) == Kickoff[g] <= t

\* a variant that only looks at the spreads
linesAvailable_SpreadsOnly(g) ==
    SlateLines[g].spread_home # NoSpread \/ SlateLines[g].spread_away # NoSpread

\* GameCard: lines_available !== false && (spread_home !== null ||
\* spread_away !== null)
linesAvailable(g) ==
    /\ SlateLines[g].lines_available
    /\ (SlateLines[g].spread_home # NoSpread \/ SlateLines[g].spread_away # NoSpread)

\* the spread the GameCard passes for a side
SpreadOf(g, side) ==
    IF side = "HOME" THEN SlateLines[g].spread_home ELSE SlateLines[g].spread_away

\* a variant that leaves out the shift to Eastern Time
SaturdayUnlock_NoOffset(t) ==
    LET currentWeekStart == (t \div HoursPerWeek) * HoursPerWeek
    IN  currentWeekStart + SaturdayIndex * HoursPerDay + UnlockHour

\* unlock_at: Saturday 12:00 of the Sunday-based week of t, plus 5 hours
SaturdayUnlock(t) ==
    LET currentWeekStart == (t \div HoursPerWeek) * HoursPerWeek
    IN  currentWeekStart + SaturdayIndex * HoursPerDay + UnlockHour + EtOffsetHours

\* league.pick_limit || 5
PickLimitOf(lg) == IF lg.pick_limit = 0 THEN DefaultPickLimit ELSE lg.pick_limit

\* array.find(pick => pick.game_id === gameId) on a sequence / on a set
FindTemp(tp, g) ==
    IF \E i \in 1..Len(tp) : tp[i].game_id = g
    THEN tp[CHOOSE i \in 1..Len(tp) :
                /\ tp[i].game_id = g
                /\ \A j \in 1..(i-1) : tp[j].game_id # g]
    ELSE NoPick
FindPick(ps, g) ==
    IF \E p \in ps : p.game_id = g THEN CHOOSE p \in ps : p.game_id = g ELSE NoPick

NewTempPick(g, week, side, lineValue, t) ==
    [game_id |-> g, week |-> week, side |-> side, line_value |-> lineValue,
     unlock_at |-> SaturdayUnlock(t), locked |-> FALSE]

\* the current render's closure, captured by the handlers it creates
Closure == [tempPicks |-> tempPicks, picks |-> picks,
            gamesWithLines |-> gamesWithLines, league |-> league,
            currentWeek |-> currentWeek]

\* GameCard: disabled={loading || !!item.existingPick}, and the card's guard
CardDisabled(g) == loading \/ gamesWithLines[g] # NoPick
CanPick(g, side) ==
    /\ gamesWithLines[g] # NotListed
    /\ ~CardDisabled(g)
    /\ ~isGameStarted(g, now)
    /\ linesAvailable(g)
    /\ SpreadOf(g, side) # NoSpread

\* derived values of the render
pickLimit == IF league = NullLeague THEN DefaultPickLimit ELSE PickLimitOf(league)
hasSubmittedPicks == picks # {}
canSubmit == Len(tempPicks) = pickLimit

-----------------------------------------------------------------------------
(* Initial state: the screen is mounted and its effect has started         *)
(* loadLeague() and loadSlateAndPicks().                                    *)
SlateInit ==
    /\ league = NullLeague
    /\ gamesWithLines = [g \in Games |-> NotListed]
    /\ picks = {}
    /\ tempPicks = <<>>
    /\ loading = TRUE
    /\ submitting = FALSE
    /\ currentWeek = FirstWeek
    /\ pickCalls = {}
    /\ prompts = {}
    /\ submitCalls = <<>>
    /\ loadCalls = <<PendingLoad(FirstWeek)>>
    /\ leagueCalls = 1
    /\ clearDialog = FALSE
    /\ lastAlert = "none"
    /\ taps = 0
    /\ db = EmptyTable
    /\ serverLimit \in PickLimits

MemberIdle ==
    /\ viewer = Null
    /\ memberDb = <<>>
    /\ currentUserId = Null
    /\ weeklyPicks = <<>>
    /\ mLoading = TRUE
    /\ mCalls = {}
    /\ mAlert = "none"

MyPicksIdle ==
    /\ myDb = EmptyTable
    /\ myWeeklyPicks = <<>>
    /\ myLoading = TRUE
    /\ myCalls = 0
    /\ deleteDialog = {}
    /\ deleteCalls = {}
    /\ myAlert = "none"

Init == SlateInit /\ MemberIdle /\ MyPicksIdle /\ now = SlateStart

-----------------------------------------------------------------------------
(* loadLeague *)
loadLeagueDone ==
    /\ leagueCalls > 0
    /\ leagueCalls' = leagueCalls - 1
    /\ \E ok \in BOOLEAN :
          league' = IF ok THEN [loaded |-> TRUE, pick_limit |-> serverLimit] ELSE league
    /\ UNCHANGED <<taps, gamesWithLines, picks, tempPicks, loading, submitting,
                   pickCalls, prompts, submitCalls, loadCalls, clearDialog,
                   lastAlert, db, serverLimit, currentWeek, memberVars,
                   myPicksVars, now>>

(* loadSlateAndPicks.  The two queries read the tables while the call is  *)
(* suspended (loadSlateAndPicksFetch); the screen state is set when the    *)
(* call resumes.  outcome: "ok", "error" (a query failed) or "nouser".     *)

\* gamesWithLines and picksData built from the fetched rows
\* (rows: the picks of the week; the slate lines of the week list the games)
LoadedGames(rows, week) ==
    [g \in Games |-> IF week = SlateWeek THEN FindPick(rows, g) ELSE NotListed]
LoadedPicks(rows) == rows

\* .eq('season', currentSeason).eq('week', currentWeek) on the picks table
PicksOfWeek(table, week) == {r \in table : r.week = week}

loadSlateAndPicksEffect(outcome, rows, week) ==
    /\ IF outcome = "ok"
       THEN /\ gamesWithLines' = LoadedGames(rows, week)
            /\ picks' = LoadedPicks(rows)
            /\ tempPicks' = <<>>
       ELSE UNCHANGED <<gamesWithLines, picks, tempPicks>>
    /\ loading' = FALSE

LoadOutcomes == {"ok", "error", "nouser"}

RemoveAt(s, i) == [j \in 1..(Len(s) - 1) |-> IF j < i THEN s[j] ELSE s[j + 1]]

loadSlateAndPicksFetch(i) ==
    /\ i \in 1..Len(loadCalls)
    /\ ~loadCalls[i].fetched
    /\ loadCalls' = [loadCalls EXCEPT ![i].fetched = TRUE,
                                      ![i].rows = PicksOfWeek(db, loadCalls[i].week)]
    /\ UNCHANGED <<taps, league, gamesWithLines, picks, tempPicks, loading,
                   submitting, pickCalls, prompts, submitCalls, leagueCalls,
                   clearDialog, lastAlert, db, serverLimit, currentWeek, memberVars,
                   myPicksVars, now>>

loadSlateAndPicksDone(i) ==
    /\ i \in 1..Len(loadCalls)
    /\ loadCalls[i].fetched
    /\ loadCalls' = RemoveAt(loadCalls, i)
    /\ \E outcome \in LoadOutcomes :
          /\ loadSlateAndPicksEffect(outcome, loadCalls[i].rows, loadCalls[i].week)
          /\ lastAlert' = IF outcome = "error" THEN "LoadError" ELSE lastAlert
    /\ UNCHANGED <<taps, league, submitting, pickCalls, prompts, submitCalls,
                   leagueCalls, clearDialog, db, serverLimit, currentWeek, memberVars,
                   myPicksVars, now>>

\* a user gesture that starts a handler (the model follows the user for
\* MaxTaps of them; closing a dialog is not counted)
Tap == taps < MaxTaps /\ taps' = taps + 1

\* pull-to-refresh
PullRefresh ==
    /\ Tap
    /\ Len(loadCalls) < MaxLoadCalls
    /\ loadCalls' = Append(loadCalls, PendingLoad(currentWeek))
    /\ loading' = TRUE
    /\ UNCHANGED <<league, gamesWithLines, picks, tempPicks, submitting,
                   pickCalls, prompts, submitCalls, leagueCalls, clearDialog,
                   lastAlert, db, serverLimit, currentWeek, memberVars,
                   myPicksVars, now>>

-----------------------------------------------------------------------------
(* handlePickSide *)

\* GameCard.handlePickHome / handlePickAway -> onPickSide(game.id, side, spread):
\* the synchronous part of handlePickSide, up to its first await
PressCard(g, side) ==
    /\ Tap
    /\ CanPick(g, side)
    /\ league # NullLeague
    /\ Cardinality(pickCalls) < MaxPickCalls
    /\ pickCalls' = pickCalls \cup
          {[game_id |-> g, side |-> side, line_value |-> SpreadOf(g, side),
            cl |-> Closure]}
    /\ UNCHANGED <<league, gamesWithLines, picks, tempPicks, loading,
                   submitting, prompts, submitCalls, loadCalls, leagueCalls,
                   clearDialog, lastAlert, db, serverLimit, currentWeek, memberVars,
                   myPicksVars, now>>

\* an off-by-one variant of the limit check (> instead of >=)
LimitReached_OffByOne(existingTempPickForGame, currentTempPicksCount, limit) ==
    existingTempPickForGame = NoPick /\ currentTempPicksCount > limit

\* "Check if we can add more picks"
LimitReached(existingTempPickForGame, currentTempPicksCount, limit) ==
    existingTempPickForGame = NoPick /\ currentTempPicksCount >= limit

\* "Update temporary picks"
UpdatedTempPicks(tp, g, newTempPick) ==
    IF FindTemp(tp, g) # NoPick
    THEN [i \in 1..Len(tp) |-> IF tp[i].game_id = g THEN newTempPick ELSE tp[i]]
    ELSE Append(tp, newTempPick)

\* "Update games with new temporary pick"
UpdatedGames(gwl, g, newTempPick) ==
    [h \in Games |-> IF gwl[h] # NotListed /\ h = g THEN newTempPick ELSE gwl[h]]

\* a variant that prompts one pick early
AllPicksMade_OneEarly(updatedTempPicks, limit) == Len(updatedTempPicks) + 1 = limit

\* "Check if all picks are made"
AllPicksMade(updatedTempPicks, limit) == Len(updatedTempPicks) = limit

\* the closure of submitAllPicks that the 'Submit Picks' button of the
\* prompt holds: the one of the render that created this handlePickSide
PromptOf(cl) == [tempPicks |-> cl.tempPicks, league |-> cl.league,
                 currentWeek |-> cl.currentWeek]

\* auth.getUser() of handlePickSide returns no user: if (!user) return
handlePickSideNoUser(c) ==
    /\ c \in pickCalls
    /\ pickCalls' = pickCalls \ {c}
    /\ UNCHANGED <<taps, league, gamesWithLines, picks, tempPicks, loading,
                   submitting, prompts, submitCalls, loadCalls, leagueCalls,
                   clearDialog, lastAlert, db, serverLimit, currentWeek, memberVars,
                   myPicksVars, now>>

\* the rest of handlePickSide, after auth.getUser() has returned a user
handlePickSideDone(c) ==
    /\ c \in pickCalls
    /\ pickCalls' = pickCalls \ {c}
    /\ LET cl == c.cl
           limit == PickLimitOf(cl.league)
           existingTempPickForGame == FindTemp(cl.tempPicks, c.game_id)
           existingSubmittedPick == FindPick(cl.picks, c.game_id)
           newTempPick == NewTempPick(c.game_id, cl.currentWeek, c.side,
                                      c.line_value, now)
           updatedTempPicks == UpdatedTempPicks(cl.tempPicks, c.game_id, newTempPick)
       IN  IF existingSubmittedPick # NoPick
           THEN /\ lastAlert' = "PickAlreadySubmitted"
                /\ UNCHANGED <<tempPicks, gamesWithLines, prompts>>
           ELSE IF LimitReached(existingTempPickForGame, Len(cl.tempPicks), limit)
           THEN /\ lastAlert' = "PickLimitReached"
                /\ UNCHANGED <<tempPicks, gamesWithLines, prompts>>
           ELSE /\ tempPicks' = updatedTempPicks
                /\ gamesWithLines' = UpdatedGames(cl.gamesWithLines, c.game_id, newTempPick)
                /\ lastAlert' = "PickSelected"
                /\ prompts' = IF AllPicksMade(updatedTempPicks, limit)
                              THEN prompts \cup {PromptOf(cl)}
                              ELSE prompts
    /\ UNCHANGED <<taps, league, picks, loading, submitting, submitCalls, loadCalls,
                   leagueCalls, clearDialog, db, serverLimit, currentWeek, memberVars,
                   myPicksVars, now>>

-----------------------------------------------------------------------------
(* submitAllPicks *)

\* first line of submitAllPicks: if (!league || tempPicks.length === 0) return
SubmitReturnsEarly(cl) == cl.league = NullLeague \/ Len(cl.tempPicks) = 0

\* the synchronous part of submitAllPicks, run with the closure cl
\* (atCall only records the session at the moment of the invocation)
submitAllPicks(cl) ==
    IF SubmitReturnsEarly(cl)
    THEN UNCHANGED <<submitting, submitCalls>>
    ELSE /\ submitting' = TRUE
         /\ submitCalls' = Append(submitCalls,
                                  [pc |-> "getUser", tempPicks |-> cl.tempPicks,
                                   week |-> cl.currentWeek,
                                   rows |-> EmptyTable, atCall |-> tempPicks])

\* the Submit button: rendered when canSubmit, disabled={submitting}
SubmitButtonEnabled == ~hasSubmittedPicks /\ canSubmit /\ ~submitting

PressSubmit ==
    /\ Tap
    /\ SubmitButtonEnabled
    /\ Len(submitCalls) < MaxSubmitCalls
    /\ submitAllPicks(Closure)
    /\ UNCHANGED <<league, gamesWithLines, picks, tempPicks, loading, pickCalls,
                   prompts, loadCalls, leagueCalls, clearDialog, lastAlert, db,
                   serverLimit, currentWeek, memberVars,
                   myPicksVars, now>>

\* 'All Picks Selected!' -> 'Submit Picks'
PromptSubmit(p) ==
    /\ Tap
    /\ p \in prompts
    /\ Len(submitCalls) < MaxSubmitCalls
    /\ prompts' = prompts \ {p}
    /\ submitAllPicks(p)
    /\ UNCHANGED <<league, gamesWithLines, picks, tempPicks, loading, pickCalls,
                   loadCalls, leagueCalls, clearDialog, lastAlert, db,
                   serverLimit, currentWeek, memberVars,
                   myPicksVars, now>>

\* 'All Picks Selected!' -> 'Review Picks'
PromptReview(p) ==
    /\ p \in prompts
    /\ prompts' = prompts \ {p}
    /\ UNCHANGED <<taps, league, gamesWithLines, picks, tempPicks, loading, submitting,
                   pickCalls, submitCalls, loadCalls, leagueCalls, clearDialog,
                   lastAlert, db, serverLimit, currentWeek, memberVars,
                   myPicksVars, now>>

SetPc(s, i, pc) == [s EXCEPT ![i].pc = pc]

\* the row written for a temporary pick (locked: false)
WriteRow(p) == [game_id |-> p.game_id, week |-> p.week, side |-> p.side,
                line_value |-> p.line_value,
                unlock_at |-> p.unlock_at, locked |-> FALSE]

\* a variant without onConflict: every row of the batch is inserted
Upsert_InsertOnly(table, tp) == table \cup {WriteRow(tp[i]) : i \in 1..Len(tp)}

\* picks.upsert(rows, onConflict: league_id,user_id,season,week,game_id)
\* a row whose key is in the batch is replaced, the others are inserted
Upsert(table, tp) ==
    {r \in table : ~\E i \in 1..Len(tp) : /\ tp[i].week = r.week
                                           /\ tp[i].game_id = r.game_id}
        \cup {WriteRow(tp[i]) : i \in 1..Len(tp)}

\* a variant that clears the temporary picks before looking at the error
TempPicksAfterUpsert_ClearFirst(ok, tp) == <<>>

\* setTempPicks([]) sits after "if (error) throw error"
TempPicksAfterUpsert(ok, tp) == IF ok THEN <<>> ELSE tp

\* a variant in which "if (!user) return" sits before the try block
submitGetUserDone_ReturnOutsideTry(i) ==
    /\ i \in 1..Len(submitCalls)
    /\ submitCalls[i].pc = "getUser"
    /\ \E user \in BOOLEAN :
          IF user
          THEN submitCalls' = SetPc(submitCalls, i, "upsert")
          ELSE submitCalls' = RemoveAt(submitCalls, i)
    /\ UNCHANGED <<taps, league, gamesWithLines, picks, tempPicks, loading, pickCalls,
                   prompts, loadCalls, leagueCalls, clearDialog, lastAlert, db,
                   serverLimit, submitting, currentWeek, memberVars,
                   myPicksVars, now>>

\* auth.getUser() of submitAllPicks returns
submitGetUserDone(i) ==
    /\ i \in 1..Len(submitCalls)
    /\ submitCalls[i].pc = "getUser"
    /\ \E user \in BOOLEAN :
          IF user
          THEN /\ submitCalls' = SetPc(submitCalls, i, "upsert")
               /\ UNCHANGED submitting
          ELSE /\ submitCalls' = RemoveAt(submitCalls, i)
               /\ submitting' = FALSE
    /\ UNCHANGED <<taps, league, gamesWithLines, picks, tempPicks, loading, pickCalls,
                   prompts, loadCalls, leagueCalls, clearDialog, lastAlert, db,
                   serverLimit, currentWeek, memberVars,
                   myPicksVars, now>>

\* the upsert returns: on success clear the temporary picks and start the
\* awaited loadSlateAndPicks(); on error alert, and finally clear submitting
submitUpsertDone(i) ==
    /\ i \in 1..Len(submitCalls)
    /\ submitCalls[i].pc = "upsert"
    /\ \E ok \in BOOLEAN :
          IF ok
          THEN /\ db' = Upsert(db, submitCalls[i].tempPicks)
               /\ tempPicks' = TempPicksAfterUpsert(ok, tempPicks)
               /\ loading' = TRUE
               /\ submitCalls' = SetPc(submitCalls, i, "reload")
               /\ UNCHANGED <<submitting, lastAlert>>
          ELSE /\ lastAlert' = "SubmitError"
               /\ submitting' = FALSE
               /\ submitCalls' = RemoveAt(submitCalls, i)
               /\ tempPicks' = TempPicksAfterUpsert(ok, tempPicks)
               /\ UNCHANGED <<db, loading>>
    /\ UNCHANGED <<taps, league, gamesWithLines, picks, pickCalls, prompts, loadCalls,
                   leagueCalls, clearDialog, serverLimit, currentWeek, memberVars,
                   myPicksVars, now>>

\* the queries of the awaited loadSlateAndPicks() read the tables
submitReloadFetch(i) ==
    /\ i \in 1..Len(submitCalls)
    /\ submitCalls[i].pc = "reload"
    /\ submitCalls' = [submitCalls EXCEPT
                          ![i].pc = "reloaded",
                          ![i].rows = PicksOfWeek(db, submitCalls[i].week)]
    /\ UNCHANGED <<taps, league, gamesWithLines, picks, tempPicks, loading,
                   submitting, pickCalls, prompts, loadCalls, leagueCalls,
                   clearDialog, lastAlert, db, serverLimit, currentWeek, memberVars,
                   myPicksVars, now>>

\* the awaited loadSlateAndPicks() returns: 'Picks Submitted!', finally
submitReloadDone(i) ==
    /\ i \in 1..Len(submitCalls)
    /\ submitCalls[i].pc = "reloaded"
    /\ \E outcome \in LoadOutcomes :
          loadSlateAndPicksEffect(outcome, submitCalls[i].rows, submitCalls[i].week)
    /\ lastAlert' = "PicksSubmitted"
    /\ submitting' = FALSE
    /\ submitCalls' = RemoveAt(submitCalls, i)
    /\ UNCHANGED <<taps, league, pickCalls, prompts, loadCalls, leagueCalls,
                   clearDialog, db, serverLimit, currentWeek, memberVars,
                   myPicksVars, now>>

-----------------------------------------------------------------------------
(* Clear Selections *)
ClearButtonShown == ~hasSubmittedPicks /\ Len(tempPicks) > 0 /\ ~canSubmit

PressClear ==
    /\ Tap
    /\ ClearButtonShown
    /\ ~clearDialog
    /\ clearDialog' = TRUE
    /\ UNCHANGED <<league, gamesWithLines, picks, tempPicks, loading, submitting,
                   pickCalls, prompts, submitCalls, loadCalls, leagueCalls,
                   lastAlert, db, serverLimit, currentWeek, memberVars,
                   myPicksVars, now>>

\* a variant of 'Clear' that only reloads
ConfirmClear_ReloadOnly ==
    /\ clearDialog
    /\ Len(loadCalls) < MaxLoadCalls
    /\ clearDialog' = FALSE
    /\ loadCalls' = Append(loadCalls, PendingLoad(currentWeek))
    /\ loading' = TRUE
    /\ UNCHANGED <<taps, league, gamesWithLines, picks, tempPicks, submitting,
                   pickCalls, prompts, submitCalls, leagueCalls, lastAlert, db,
                   serverLimit, currentWeek, memberVars,
                   myPicksVars, now>>

\* 'Clear': setTempPicks([]); loadSlateAndPicks()
ConfirmClear ==
    /\ clearDialog
    /\ Len(loadCalls) < MaxLoadCalls
    /\ clearDialog' = FALSE
    /\ tempPicks' = <<>>
    /\ loadCalls' = Append(loadCalls, PendingLoad(currentWeek))
    /\ loading' = TRUE
    /\ UNCHANGED <<taps, league, gamesWithLines, picks, submitting, pickCalls, prompts,
                   submitCalls, leagueCalls, lastAlert, db, serverLimit,
                   currentWeek, memberVars,
                   myPicksVars, now>>

CancelClear ==
    /\ clearDialog
    /\ clearDialog' = FALSE
    /\ UNCHANGED <<taps, league, gamesWithLines, picks, tempPicks, loading, submitting,
                   pickCalls, prompts, submitCalls, loadCalls, leagueCalls,
                   lastAlert, db, serverLimit, currentWeek, memberVars,
                   myPicksVars, now>>

-----------------------------------------------------------------------------
Next ==
    \/ loadLeagueDone
    \/ \E i \in 1..Len(loadCalls) : loadSlateAndPicksFetch(i)
    \/ \E i \in 1..Len(loadCalls) : loadSlateAndPicksDone(i)
    \/ PullRefresh
    \/ \E g \in Games, side \in Sides : PressCard(g, side)
    \/ \E c \in pickCalls : handlePickSideNoUser(c)
    \/ \E c \in pickCalls : handlePickSideDone(c)
    \/ PressSubmit
    \/ \E p \in prompts : PromptSubmit(p)
    \/ \E p \in prompts : PromptReview(p)
    \/ \E i \in 1..Len(submitCalls) : submitGetUserDone(i)
    \/ \E i \in 1..Len(submitCalls) : submitUpsertDone(i)
    \/ \E i \in 1..Len(submitCalls) : submitReloadFetch(i)
    \/ \E i \in 1..Len(submitCalls) : submitReloadDone(i)
    \/ PressClear
    \/ ConfirmClear
    \/ CancelClear

Spec == Init /\ [][Next]_vars

\* every remote call of a submitAllPicks returns
SubmitFairness ==
    /\ WF_vars(\E i \in 1..Len(submitCalls) : submitGetUserDone(i))
    /\ WF_vars(\E i \in 1..Len(submitCalls) : submitUpsertDone(i))
    /\ WF_vars(\E i \in 1..Len(submitCalls) : submitReloadFetch(i))
    /\ WF_vars(\E i \in 1..Len(submitCalls) : submitReloadDone(i))

FairSpec == Init /\ [][Next]_vars /\ SubmitFairness

-----------------------------------------------------------------------------
(* Week navigation of the slate screen *)

\* setCurrentWeek(week), and the effect on [leagueId, currentWeek] that the
\* next render runs: loadLeague(); loadSlateAndPicks().  The confirmation of
\* 'Clear Selections' is modal.
setCurrentWeek(week) ==
    /\ Tap
    /\ ~clearDialog
    /\ Len(loadCalls) < MaxLoadCalls
    /\ currentWeek' = week
    /\ leagueCalls' = leagueCalls + 1
    /\ loadCalls' = Append(loadCalls, PendingLoad(week))
    /\ loading' = TRUE
    /\ UNCHANGED <<league, gamesWithLines, picks, tempPicks, submitting,
                   pickCalls, prompts, submitCalls, clearDialog, lastAlert, db,
                   serverLimit, memberVars, myPicksVars, now>>

\* the two week buttons (disabled at week 1 and at week 15)
PressPrevWeek ==
    /\ currentWeek > FirstWeek
    /\ setCurrentWeek(currentWeek - 1)

PressNextWeek ==
    /\ currentWeek < LastWeek
    /\ currentWeek < MaxWeek
    /\ setCurrentWeek(currentWeek + 1)

WeekInit == Init /\ serverLimit = 2

WeekNext ==
    \/ loadLeagueDone
    \/ \E i \in 1..Len(loadCalls) : loadSlateAndPicksFetch(i)
    \/ \E i \in 1..Len(loadCalls) : loadSlateAndPicksDone(i)
    \/ \E g \in Games, side \in Sides : PressCard(g, side)
    \/ \E c \in pickCalls : handlePickSideDone(c)
    \/ PressSubmit
    \/ \E i \in 1..Len(submitCalls) : submitGetUserDone(i)
    \/ \E i \in 1..Len(submitCalls) : submitUpsertDone(i)
    \/ \E i \in 1..Len(submitCalls) : submitReloadFetch(i)
    \/ \E i \in 1..Len(submitCalls) : submitReloadDone(i)
    \/ PressPrevWeek
    \/ PressNextWeek

WeekSpec == WeekInit /\ [][WeekNext]_vars

-----------------------------------------------------------------------------
(* The slate screen over the days of a week: picks are selected while the  *)
(* clock moves on, to follow the unlock_at that handlePickSide computes.    *)

\* the screen is opened on Tuesday 12:00 or on Saturday one hour after the
\* unlock time of that week
UnlockStarts == {SlateStart, SaturdayUnlock(SlateStart) + 1}

UnlockInit ==
    /\ SlateInit
    /\ serverLimit = 2
    /\ MemberIdle
    /\ MyPicksIdle
    /\ now \in UnlockStarts

\* a day passes
TickDay ==
    /\ now + HoursPerDay <= SlateStart + MaxUnlockDays * HoursPerDay
    /\ now' = now + HoursPerDay
    /\ UNCHANGED <<slateVars, myPicksVars, memberVars>>

UnlockNext ==
    \/ loadLeagueDone
    \/ \E i \in 1..Len(loadCalls) : loadSlateAndPicksFetch(i)
    \/ \E i \in 1..Len(loadCalls) : loadSlateAndPicksDone(i)
    \/ \E g \in Games, side \in Sides : PressCard(g, side)
    \/ \E c \in pickCalls : handlePickSideNoUser(c)
    \/ \E c \in pickCalls : handlePickSideDone(c)
    \/ TickDay

UnlockSpec == UnlockInit /\ [][UnlockNext]_vars

\* the slate screen from Tuesday noon over the days up to and past the
\* Saturday kickoffs, with selection and submission
KickoffInit ==
    /\ SlateInit
    /\ serverLimit = 1
    /\ MemberIdle
    /\ MyPicksIdle
    /\ now = SlateStart

KickoffNext ==
    \/ loadLeagueDone
    \/ \E i \in 1..Len(loadCalls) : loadSlateAndPicksFetch(i)
    \/ \E i \in 1..Len(loadCalls) : loadSlateAndPicksDone(i)
    \/ \E g \in Games, side \in Sides : PressCard(g, side)
    \/ \E c \in pickCalls : handlePickSideDone(c)
    \/ PressSubmit
    \/ \E i \in 1..Len(submitCalls) : submitGetUserDone(i)
    \/ \E i \in 1..Len(submitCalls) : submitUpsertDone(i)
    \/ \E i \in 1..Len(submitCalls) : submitReloadFetch(i)
    \/ \E i \in 1..Len(submitCalls) : submitReloadDone(i)
    \/ TickDay

KickoffSpec == KickoffInit /\ [][KickoffNext]_vars

-----------------------------------------------------------------------------
(* MemberPicksScreen *)

\* route parameter userId: the member whose picks are shown
MemberId == "u1"
Viewers == {"u1", "u2", Null}
NoResult == "none"
NoPoints == -1

\* rows of the picks table of that member (with their games), newest first
MemberPick(g, side, lineValue, unlockAt, locked, result, points) ==
    [game_id |-> g, side |-> side, line_value |-> lineValue,
     unlock_at |-> unlockAt, locked |-> locked, result |-> result,
     points |-> points]
MemberRows ==
    { MemberPick("g1", "HOME", -3, SaturdayUnlock(SlateStart), TRUE, "WIN", 1),
      MemberPick("g1", "AWAY", 3, SaturdayUnlock(SlateStart), TRUE, "LOSS", 0),
      MemberPick("g2", "HOME", 7, NoUnlock, FALSE, NoResult, NoPoints),
      MemberPick("g3", "AWAY", -1, SaturdayUnlock(SlateStart), FALSE, NoResult, NoPoints),
      MemberPick("g3", "AWAY", -1, SaturdayUnlock(SlateStart), TRUE, "PUSH", 0) }
MemberTables ==
    { <<r>> : r \in MemberRows } \cup
    { <<r1, r2>> : r1 \in {r \in MemberRows : r.game_id = "g1"},
                   r2 \in {r \in MemberRows : r.game_id # "g1"} }

MemberStart == SaturdayUnlock(SlateStart) - 2

MemberInit ==
    /\ SlateInit
    /\ serverLimit = 0
    /\ viewer \in Viewers
    /\ memberDb \in MemberTables
    /\ currentUserId = Null
    /\ weeklyPicks = <<>>
    /\ mLoading = TRUE
    /\ mCalls = {"getCurrentUser", "fetchMemberPicks"}
    /\ mAlert = "none"
    /\ MyPicksIdle
    /\ now = MemberStart

\* setCurrentUserId(user?.id || null)
getCurrentUser ==
    /\ "getCurrentUser" \in mCalls
    /\ mCalls' = mCalls \ {"getCurrentUser"}
    /\ currentUserId' = viewer
    /\ UNCHANGED <<slateVars, myPicksVars, viewer, memberDb, weeklyPicks, mLoading, mAlert, now>>

fetchMemberPicks ==
    /\ "fetchMemberPicks" \in mCalls
    /\ mCalls' = mCalls \ {"fetchMemberPicks"}
    /\ \E ok \in BOOLEAN :
          IF ok
          THEN weeklyPicks' = memberDb /\ UNCHANGED mAlert
          ELSE mAlert' = "LoadError" /\ UNCHANGED weeklyPicks
    /\ mLoading' = FALSE
    /\ UNCHANGED <<slateVars, myPicksVars, viewer, memberDb, currentUserId, now>>

\* RefreshControl onRefresh={fetchMemberPicks}: part of the list, which is
\* rendered when loading is over and there are picks
MemberRefresh ==
    /\ ~mLoading
    /\ weeklyPicks # <<>>
    /\ "fetchMemberPicks" \notin mCalls
    /\ mCalls' = mCalls \cup {"fetchMemberPicks"}
    /\ UNCHANGED <<slateVars, myPicksVars, viewer, memberDb, currentUserId, weeklyPicks,
                   mLoading, mAlert, now>>

TickHour ==
    /\ now < MemberStart + MaxMemberTicks
    /\ now' = now + 1
    /\ UNCHANGED <<slateVars, myPicksVars, memberVars>>

\* a variant that unlocks strictly after unlock_at (> instead of >=)
isPickVisible_StrictlyAfter(pick, t) ==
    IF currentUserId = MemberId THEN TRUE
    ELSE IF pick.unlock_at = NoUnlock THEN TRUE
    ELSE t > pick.unlock_at

\* isPickVisible at time t for the identity the screen currently holds
isPickVisible(pick, t) ==
    IF currentUserId = MemberId THEN TRUE
    ELSE IF pick.unlock_at = NoUnlock THEN TRUE
    ELSE t >= pick.unlock_at

\* renderPick: what the card of a pick shows.  A part that is not rendered
\* is the empty set.
\* a variant that looks at the result before the visibility
getStatusText_ResultFirst(item, visible) ==
    IF item.result # NoResult THEN item.result
    ELSE IF ~visible THEN "LOCKED"
    ELSE IF item.locked THEN "LOCKED"
    ELSE "PENDING"

getStatusText(item, visible) ==
    IF ~visible THEN "LOCKED"
    ELSE IF item.result # NoResult THEN item.result
    ELSE IF item.locked THEN "LOCKED"
    ELSE "PENDING"

getStatusColor(item, visible) ==
    IF ~visible THEN "#6c757d"
    ELSE IF item.result = "WIN" THEN "#28a745"
    ELSE IF item.result = "LOSS" THEN "#dc3545"
    ELSE IF item.result = "PUSH" THEN "#ffc107"
    ELSE IF item.locked THEN "#6c757d"
    ELSE "#007bff"

getStatusIcon(item, visible) ==
    IF ~visible THEN "lock"
    ELSE IF item.result = "WIN" THEN "check"
    ELSE IF item.result = "LOSS" THEN "cross"
    ELSE IF item.result = "PUSH" THEN "dash"
    ELSE IF item.locked THEN "lock"
    ELSE "hourglass"

renderPick(item, t) ==
    LET visible == isPickVisible(item, t)
    IN  [gameText    |-> item.game_id,
         statusColor |-> getStatusColor(item, visible),
         statusIcon  |-> getStatusIcon(item, visible),
         statusText  |-> getStatusText(item, visible),
         side        |-> IF visible THEN {item.side} ELSE {},
         line_value  |-> IF visible THEN {item.line_value} ELSE {},
         points      |-> IF visible /\ item.points # NoPoints THEN {item.points} ELSE {},
         pendingText |-> IF visible /\ item.result = NoResult
                         THEN {IF item.locked THEN "Waiting for game result"
                               ELSE "Pick submitted"}
                         ELSE {},
         hiddenText  |-> IF visible THEN {} ELSE {"Pick Hidden"},
         unlocks     |-> IF ~visible /\ item.unlock_at # NoUnlock
                         THEN {item.unlock_at} ELSE {}]

\* the list of picks is on screen
\* a variant that counts over every pick of the week
visiblePicks_All(items, t) == items

\* item.picks.filter(isPickVisible)
visiblePicks(items, t) == SelectSeq(items, LAMBDA p : isPickVisible(p, t))

\* visiblePicks.filter(p => p.result === r).length, r = NoResult for !p.result
ResultCount(items, t, r) ==
    Cardinality({i \in 1..Len(visiblePicks(items, t)) :
                    visiblePicks(items, t)[i].result = r})
lockedCount(items, t) == Len(items) - Len(visiblePicks(items, t))

\* {n > 0 && <Text>...</Text>}
ShownIfPositive(n) == IF n > 0 THEN {n} ELSE {}

\* the week header and the cards of the picks of one week
renderWeekSection(items, t) ==
    [weekWins    |-> ShownIfPositive(ResultCount(items, t, "WIN")),
     weekLosses  |-> ShownIfPositive(ResultCount(items, t, "LOSS")),
     weekPushes  |-> ShownIfPositive(ResultCount(items, t, "PUSH")),
     weekPending |-> ShownIfPositive(ResultCount(items, t, NoResult)),
     weekLocked  |-> ShownIfPositive(lockedCount(items, t)),
     cards       |-> [i \in 1..Len(items) |-> renderPick(items[i], t)]]

PicksRendered == ~mLoading /\ weeklyPicks # <<>>

MemberNext ==
    \/ getCurrentUser
    \/ fetchMemberPicks
    \/ MemberRefresh
    \/ TickHour

MemberSpec == MemberInit /\ [][MemberNext]_vars

-----------------------------------------------------------------------------
(* LeagueMyPicksScreen *)

\* a row of the picks table as submitAllPicks writes it: locked false, no result
MyPick(week, g, side) ==
    [week |-> week, game_id |-> g, side |-> side, locked |-> FALSE,
     result |-> NoResult]
MyRows == { MyPick(FirstWeek, "g1", "HOME"), MyPick(FirstWeek + 1, "g3", "AWAY") }
MyTables == SUBSET MyRows \ {EmptyTable}

\* (league_id, user_id, season, week, game_id); league, user and season are
\* the same for every row of this screen
SameKey(r, q) == r.week = q.week /\ r.game_id = q.game_id

\* the weeks of the rows, most recent first
RECURSIVE WeeksDescending(_)
WeeksDescending(weeks) ==
    IF weeks = {} THEN <<>>
    ELSE LET w == CHOOSE x \in weeks : \A y \in weeks : y <= x
         IN  <<w>> \o WeeksDescending(weeks \ {w})

\* groupedPicks by `${season}-${week}`, sorted by most recent
GroupByWeek(rows) ==
    LET weeks == WeeksDescending({r.week : r \in rows})
    IN  [i \in 1..Len(weeks) |->
            [week |-> weeks[i], picks |-> {r \in rows : r.week = weeks[i]}]]

\* the picks on screen
MyPicksShown ==
    IF myLoading THEN {}
    ELSE UNION {myWeeklyPicks[i].picks : i \in 1..Len(myWeeklyPicks)}

\* the effect runs fetchPicks once
MyPicksInit ==
    /\ SlateInit
    /\ serverLimit = 0
    /\ MemberIdle
    /\ myDb \in MyTables
    /\ myWeeklyPicks = <<>>
    /\ myLoading = TRUE
    /\ myCalls = 1
    /\ deleteDialog = {}
    /\ deleteCalls = {}
    /\ myAlert = "none"
    /\ now = SlateStart

\* fetchPicks returns
fetchPicks ==
    /\ myCalls > 0
    /\ myCalls' = myCalls - 1
    /\ \E outcome \in LoadOutcomes :
          CASE outcome = "ok" ->
                  myWeeklyPicks' = GroupByWeek(myDb) /\ UNCHANGED myAlert
            [] outcome = "nouser" -> UNCHANGED <<myWeeklyPicks, myAlert>>
            [] outcome = "error" ->
                  myAlert' = "LoadError" /\ UNCHANGED myWeeklyPicks
    /\ myLoading' = FALSE
    /\ UNCHANGED <<slateVars, memberVars, myDb, deleteDialog, deleteCalls, now>>

\* RefreshControl onRefresh={fetchPicks}, part of the list
MyPicksRefresh ==
    /\ ~myLoading
    /\ myWeeklyPicks # <<>>
    /\ deleteDialog = {}
    /\ myCalls + Cardinality(deleteCalls) < MaxFetchCalls
    /\ myCalls' = myCalls + 1
    /\ UNCHANGED <<slateVars, memberVars, myDb, myWeeklyPicks, myLoading,
                   deleteDialog, deleteCalls, myAlert, now>>

\* deletePick up to its Alert
deletePick(pick) ==
    IF pick.locked
    THEN myAlert' = "CannotDelete" /\ UNCHANGED deleteDialog
    ELSE deleteDialog' = {pick} /\ UNCHANGED myAlert

\* the Delete button of a card, rendered when !item.locked
PressDelete(item) ==
    /\ item \in MyPicksShown
    /\ deleteDialog = {}
    /\ ~item.locked
    /\ deletePick(item)
    /\ UNCHANGED <<slateVars, memberVars, myDb, myWeeklyPicks, myLoading,
                   myCalls, deleteCalls, now>>

\* 'Cancel'
CancelDelete ==
    /\ deleteDialog # {}
    /\ deleteDialog' = {}
    /\ UNCHANGED <<slateVars, memberVars, myDb, myWeeklyPicks, myLoading,
                   myCalls, deleteCalls, myAlert, now>>

\* 'Delete': the delete request is sent
ConfirmDelete(pick) ==
    /\ pick \in deleteDialog
    /\ myCalls + Cardinality(deleteCalls) < MaxFetchCalls
    /\ deleteDialog' = {}
    /\ deleteCalls' = deleteCalls \cup {pick}
    /\ UNCHANGED <<slateVars, memberVars, myDb, myWeeklyPicks, myLoading,
                   myCalls, myAlert, now>>

\* .delete().eq('league_id').eq('user_id').eq('season').eq('week').eq('game_id')
DeleteRows(table, pick) == {r \in table : ~SameKey(r, pick)}

\* the delete request returns
deletePickDone(pick) ==
    /\ pick \in deleteCalls
    /\ deleteCalls' = deleteCalls \ {pick}
    /\ \E error \in BOOLEAN :
          IF error
          THEN /\ myAlert' = "DeleteError"
               /\ UNCHANGED <<myDb, myCalls>>
          ELSE /\ myDb' = DeleteRows(myDb, pick)
               /\ myCalls' = myCalls + 1
               /\ UNCHANGED myAlert
    /\ UNCHANGED <<slateVars, memberVars, myWeeklyPicks, myLoading,
                   deleteDialog, now>>

\* the external process that locks a pick
ExternalLock(r) ==
    /\ r \in myDb
    /\ ~r.locked
    /\ myDb' = (myDb \ {r}) \cup {[r EXCEPT !.locked = TRUE]}
    /\ UNCHANGED <<slateVars, memberVars, myWeeklyPicks, myLoading, myCalls,
                   deleteDialog, deleteCalls, myAlert, now>>

\* the external grading of a locked pick
ExternalGrade(r) ==
    /\ r \in myDb
    /\ r.locked
    /\ r.result = NoResult
    /\ \E result \in {"WIN", "LOSS", "PUSH"} :
          myDb' = (myDb \ {r}) \cup {[r EXCEPT !.result = result]}
    /\ UNCHANGED <<slateVars, memberVars, myWeeklyPicks, myLoading, myCalls,
                   deleteDialog, deleteCalls, myAlert, now>>

MyPicksNext ==
    \/ fetchPicks
    \/ MyPicksRefresh
    \/ \E item \in MyPicksShown : PressDelete(item)
    \/ CancelDelete
    \/ \E pick \in deleteDialog : ConfirmDelete(pick)
    \/ \E pick \in deleteCalls : deletePickDone(pick)
    \/ \E r \in myDb : ExternalLock(r)
    \/ \E r \in myDb : ExternalGrade(r)

MyPicksSpec == MyPicksInit /\ [][MyPicksNext]_vars

-----------------------------------------------------------------------------
(* Properties of the pick session (checked under Spec)                     *)

\* C1: the number of temporary picks never exceeds the pick limit of the
\* league of the session (league.pick_limit, 5 when it is not set).
C1_LimitInvariant == Len(tempPicks) <= pickLimit

\* a limit check has just rejected a pick on a session that is full
C1_Witness ==
    /\ lastAlert = "PickLimitReached"
    /\ league # NullLeague
    /\ Len(tempPicks) = pickLimit

\* C2: whenever the picks table holds a pick for game g, a handlePickSide
\* for g ends with 'Pick Already Submitted' and changes no session state.
C2_AlreadySubmitted ==
    [][\A c \in pickCalls :
          (handlePickSideDone(c) /\ FindPick(db, c.game_id) # NoPick)
          => /\ lastAlert' = "PickAlreadySubmitted"
             /\ UNCHANGED <<tempPicks, gamesWithLines, picks, prompts, db>>]_vars

\* the steps of one submitAllPicks call that ends with a failed write
SubmitStepWithoutWrite ==
    \/ PressSubmit
    \/ \E p \in prompts : PromptSubmit(p)
    \/ \E i \in 1..Len(submitCalls) : submitGetUserDone(i)
    \/ \E i \in 1..Len(submitCalls) :
          submitUpsertDone(i) /\ Len(submitCalls') < Len(submitCalls)

\* C3: a submitAllPicks whose upsert fails leaves the temporary picks (games,
\* sides, line values, unlock_at, order) and the picks table as they were.
C3_FailedSubmitKeepsSession ==
    [][SubmitStepWithoutWrite => (tempPicks' = tempPicks /\ db' = db)]_vars

\* the upsert has just failed and the picks are still there for a retry
C3_Witness ==
    /\ lastAlert = "SubmitError"
    /\ Len(tempPicks) > 0
    /\ ~submitting

\* C4: when the upsert of a submitAllPicks succeeds, the session is empty
\* afterwards and the picks table holds, with the same side and line value,
\* every pick that was in the session when submitAllPicks was invoked.
C4_SubmitWritesSession ==
    [][\A i \in 1..Len(submitCalls) :
          (submitUpsertDone(i) /\ Len(submitCalls') = Len(submitCalls))
          => /\ tempPicks' = <<>>
             /\ \A k \in 1..Len(submitCalls[i].atCall) :
                   LET p == submitCalls[i].atCall[k]
                   IN  /\ FindPick(db', p.game_id).side = p.side
                       /\ FindPick(db', p.game_id).line_value = p.line_value]_vars

\* at most one temporary pick per game
OnePickPerGame ==
    \A i, j \in 1..Len(tempPicks) :
        tempPicks[i].game_id = tempPicks[j].game_id => i = j

\* C5: a handlePickSide for a game g that already has a temporary pick (and
\* no submitted one) replaces it: afterwards g has exactly one temporary
\* pick, with the new side and line value, and the number of temporary picks
\* is unchanged, also at the limit; and no game ever has two temporary picks.
C5_UpsertByGame ==
    [][/\ OnePickPerGame'
       /\ \A c \in pickCalls :
            (/\ handlePickSideDone(c)
             /\ FindTemp(tempPicks, c.game_id) # NoPick
             /\ FindPick(db, c.game_id) = NoPick)
            => /\ Len(tempPicks') = Len(tempPicks)
               /\ Cardinality({k \in 1..Len(tempPicks') :
                                  tempPicks'[k].game_id = c.game_id}) = 1
               /\ FindTemp(tempPicks', c.game_id).side = c.side
               /\ FindTemp(tempPicks', c.game_id).line_value = c.line_value]_vars

\* C9: while the upsert of a submitAllPicks is in flight no further
\* submitAllPicks gets past its guard (no second call, no second write).
C9_NoReentrantSubmit ==
    [][(\E i \in 1..Len(submitCalls) : submitCalls[i].pc = "upsert")
       => Len(submitCalls') <= Len(submitCalls)]_vars

\* C10: a submitAllPicks invoked while the session holds no temporary pick
\* starts no remote call and changes no state.
C10_EmptySessionNoOp ==
    [][\A p \in prompts :
          (PromptSubmit(p) /\ tempPicks = <<>>)
          => UNCHANGED <<submitCalls, submitting, tempPicks, db, lastAlert>>]_vars

\* C11: the picks table never holds two rows with the same (league, user,
\* season, week, game) key, and every row that submitAllPicks has written
\* has locked = false.
C11_OneRowPerKeyUnlocked ==
    /\ \A r1, r2 \in db :
          (r1.week = r2.week /\ r1.game_id = r2.game_id) => r1 = r2
    /\ \A r \in db : r.locked = FALSE

\* a submitAllPicks has completed and the table holds two picks
C11_Witness ==
    /\ lastAlert = "PicksSubmitted"
    /\ Cardinality(db) = 2
    /\ submitCalls = <<>>

\* C12: once a pick is in the picks table no step changes its side or its
\* line value (no submitAllPicks writes a game that is already stored).
C12_DurablePickImmutable ==
    [][\A r \in db :
          /\ FindPick(db', r.game_id).side = r.side
          /\ FindPick(db', r.game_id).line_value = r.line_value]_vars

\* C13: a handlePickSide for a game without temporary (and without stored)
\* pick, on a session that holds pick-limit temporary picks, ends with 'Pick
\* Limit Reached' and leaves the temporary picks and the games as they were.
C13_LimitReachedKeepsSession ==
    [][\A c \in pickCalls :
          (/\ handlePickSideDone(c)
           /\ FindPick(db, c.game_id) = NoPick
           /\ FindTemp(tempPicks, c.game_id) = NoPick
           /\ Len(tempPicks) = pickLimit)
          => /\ lastAlert' = "PickLimitReached"
             /\ UNCHANGED <<tempPicks, gamesWithLines>>]_vars

\* C14: when the picks table holds a pick for game g and the session holds
\* pick-limit temporary picks, none of them for g, a handlePickSide for g ends
\* with 'Pick Already Submitted' and not with 'Pick Limit Reached'.
C14_AlreadySubmittedFirst ==
    [][\A c \in pickCalls :
          (/\ handlePickSideDone(c)
           /\ FindPick(db, c.game_id) # NoPick
           /\ FindTemp(tempPicks, c.game_id) = NoPick
           /\ Len(tempPicks) = pickLimit)
          => lastAlert' = "PickAlreadySubmitted"]_vars

\* C15: confirming 'Clear Selections' empties the temporary picks and
\* reports no error, and neither it nor the loadSlateAndPicks it starts
\* writes or deletes a row of the picks table.
C15_ClearKeepsDurable ==
    [][/\ ConfirmClear => (tempPicks' = <<>> /\ lastAlert' = lastAlert)
       /\ (\/ ConfirmClear
           \/ \E i \in 1..Len(loadCalls) : loadSlateAndPicksFetch(i)
           \/ \E i \in 1..Len(loadCalls) : loadSlateAndPicksDone(i))
          => db' = db]_vars

\* the session has been cleared, its reload is still running and the games
\* still carry the marks of the discarded picks
C15_Witness ==
    /\ tempPicks = <<>>
    /\ ~clearDialog
    /\ Len(loadCalls) > 0
    /\ submitCalls = <<>>
    /\ db = EmptyTable
    /\ \E g \in Games : gamesWithLines[g] \notin {NoPick, NotListed}

\* C16: in every state in which no submitAllPicks is running and the
\* session holds temporary picks, also when their number equals the pick
\* limit, the 'Clear Selections' button is offered.
C16_ClearFromEveryState ==
    (~submitting /\ Len(tempPicks) > 0) => ClearButtonShown

\* the league is loaded and its configuration carries a pick limit
ValidLimitKnown == league # NullLeague /\ league.pick_limit > 0

\* C17: a handlePickSide adds or changes a temporary pick only when the
\* league is loaded with a pick limit; with no league, or with a pick_limit
\* that is missing or 0, the temporary picks stay as they are.
C17_FailClosedOnConfig ==
    [][\A c \in pickCalls :
          (handlePickSideDone(c) /\ ~ValidLimitKnown) => tempPicks' = tempPicks]_vars

\* C18: the step that ends a submitAllPicks call reports its outcome: the
\* alert the user sees after it is 'Picks Submitted!' or the submit error.
C18_SubmitAlwaysReports ==
    [][Len(submitCalls') < Len(submitCalls)
       => lastAlert' \in {"PicksSubmitted", "SubmitError"}]_vars

C22_NoPickWithoutLines ==
    /\ \A c \in pickCalls :
          /\ SlateLines[c.game_id].lines_available
          /\ SpreadOf(c.game_id, c.side) # NoSpread
    /\ \A k \in 1..Len(tempPicks) :
          /\ SlateLines[tempPicks[k].game_id].lines_available
          /\ SpreadOf(tempPicks[k].game_id, tempPicks[k].side) # NoSpread

\* the preview game g4 is listed and its card is not disabled, the user has
\* used every gesture, and the session has a pick, but none for g4
C22_Witness ==
    /\ gamesWithLines["g4"] = NoPick
    /\ ~loading
    /\ ~SlateLines["g4"].lines_available
    /\ taps = MaxTaps
    /\ Len(tempPicks) > 0
    /\ FindTemp(tempPicks, "g4") = NoPick

\* C23: 'Submit Picks' of the 'All Picks Selected!' prompt, pressed while
\* the session holds temporary picks, starts a submitAllPicks whose write
\* carries exactly the temporary picks the session holds at that moment.
C23_PromptSubmitsSession ==
    [][\A p \in prompts :
          (PromptSubmit(p) /\ tempPicks # <<>>)
          => /\ Len(submitCalls') = Len(submitCalls) + 1
             /\ submitCalls'[Len(submitCalls')].tempPicks = tempPicks]_vars

\* C24: the number of rows the picks table holds for the user in one week
\* of the league never exceeds the pick limit of the league.
C24_DurableWithinLimit ==
    \A week \in FirstWeek..MaxWeek :
        Cardinality(PicksOfWeek(db, week))
            <= PickLimitOf([loaded |-> TRUE, pick_limit |-> serverLimit])

\* C25: a handlePickSide that ends with 'Pick Selected' keeps every
\* temporary pick the session holds for the other games: a selection that
\* was accepted is not lost when another call completes.
C25_NoLostSelection ==
    [][\A c \in pickCalls :
          (handlePickSideDone(c) /\ lastAlert' = "PickSelected")
          => \A k \in 1..Len(tempPicks) :
                tempPicks[k].game_id # c.game_id
                    => FindTemp(tempPicks', tempPicks[k].game_id) = tempPicks[k]]_vars

\* C26 (under FairSpec): whenever the submitting flag is set it is cleared
\* again later, whether the write succeeds, fails or no user is found.
C26_SubmittingCleared == submitting ~> ~submitting

\* a submitAllPicks has written and is about to finish; the flag is set
C26_Witness ==
    /\ submitting
    /\ \E i \in 1..Len(submitCalls) : submitCalls[i].pc = "reloaded"

\* C28: a game on the slate carries an existingPick (its card is shown as
\* picked and its buttons are disabled) only if the session holds a temporary
\* pick for it or the picks table holds a pick for it; stated for the states
\* in which no load is in flight, so also after a clear whose reload failed.
C28_PickedOnlyIfPickExists ==
    loadCalls = <<>> =>
        \A g \in Games :
            gamesWithLines[g] \notin {NoPick, NotListed}
            => \/ FindTemp(tempPicks, g) # NoPick
               \/ FindPick(PicksOfWeek(db, currentWeek), g) # NoPick

-----------------------------------------------------------------------------
(* Properties of pick visibility (checked under MemberSpec)                *)

\* the hours the model's clock runs through
MemberTimes == MemberStart .. (MemberStart + MaxMemberTicks)

\* C6: for a viewer who is not the member, a pick is visible at time t
\* exactly when it has no unlock_at or t >= unlock_at (so it is hidden at
\* every hour before unlock_at and visible at every hour from it on).
C6_NonOwnerVisibility ==
    viewer # MemberId =>
        \A i \in 1..Len(memberDb) : \A t \in MemberTimes :
            isPickVisible(memberDb[i], t)
                <=> (memberDb[i].unlock_at = NoUnlock \/ t >= memberDb[i].unlock_at)

\* another signed-in user looks at a pick at the hour it unlocks
C6_Witness ==
    /\ viewer = "u2"
    /\ currentUserId = "u2"
    /\ PicksRendered
    /\ \E i \in 1..Len(weeklyPicks) :
          /\ weeklyPicks[i].unlock_at = now
          /\ isPickVisible(weeklyPicks[i], now)
          /\ ~isPickVisible(weeklyPicks[i], now - 1)

\* C7: whenever the screen renders the picks and the viewer is the member
\* themselves, every pick is visible.
C7_OwnerAlwaysVisible ==
    (viewer = MemberId /\ PicksRendered)
        => \A i \in 1..Len(weeklyPicks) : isPickVisible(weeklyPicks[i], now)

\* a pick without the fields the card must not disclose
Redacted(item) ==
    [item EXCEPT !.side = "none", !.line_value = 0, !.result = NoResult,
                 !.points = NoPoints, !.locked = FALSE]

\* C8: the card of a pick that is not visible shows LOCKED and nothing that
\* depends on side, line_value, result or points.
C8_HiddenCardDisclosesNothing ==
    PicksRendered =>
        \A i \in 1..Len(weeklyPicks) :
            ~isPickVisible(weeklyPicks[i], now) =>
                LET card == renderPick(weeklyPicks[i], now)
                IN  /\ card.statusText = "LOCKED"
                    /\ card.side = {}
                    /\ card.line_value = {}
                    /\ card.points = {}
                    /\ card = renderPick(Redacted(weeklyPicks[i]), now)

\* a graded pick is on screen and hidden
C8_Witness ==
    /\ PicksRendered
    /\ \E i \in 1..Len(weeklyPicks) :
          /\ ~isPickVisible(weeklyPicks[i], now)
          /\ weeklyPicks[i].result # NoResult

\* the picks with every hidden one redacted
RedactHidden(items, t) ==
    [i \in 1..Len(items) |->
        IF isPickVisible(items[i], t) THEN items[i] ELSE Redacted(items[i])]
VisibleIndexes(items, t) == {i \in 1..Len(items) : isPickVisible(items[i], t)}
VisibleWith(items, t, r) == {i \in VisibleIndexes(items, t) : items[i].result = r}

\* C29: the week header counts wins, losses, pushes and pending picks over
\* the visible picks only, visible plus locked is the number of picks of the
\* week, and the section is the same whatever the hidden picks hold.
C29_HeaderCountsVisibleOnly ==
    PicksRendered =>
        LET section == renderWeekSection(weeklyPicks, now)
        IN  /\ section.weekWins =
                   ShownIfPositive(Cardinality(VisibleWith(weeklyPicks, now, "WIN")))
            /\ section.weekLosses =
                   ShownIfPositive(Cardinality(VisibleWith(weeklyPicks, now, "LOSS")))
            /\ section.weekPushes =
                   ShownIfPositive(Cardinality(VisibleWith(weeklyPicks, now, "PUSH")))
            /\ section.weekPending =
                   ShownIfPositive(Cardinality(VisibleWith(weeklyPicks, now, NoResult)))
            /\ Cardinality(VisibleIndexes(weeklyPicks, now))
                   + lockedCount(weeklyPicks, now) = Len(weeklyPicks)
            /\ section = renderWeekSection(RedactHidden(weeklyPicks, now), now)

\* a week with a hidden graded pick and a visible pick is on screen
C29_Witness ==
    /\ PicksRendered
    /\ \E i, j \in 1..Len(weeklyPicks) :
          /\ ~isPickVisible(weeklyPicks[i], now)
          /\ weeklyPicks[i].result # NoResult
          /\ isPickVisible(weeklyPicks[j], now)

-----------------------------------------------------------------------------
(* Properties of unlock_at (checked under UnlockSpec)                      *)

WeekStart(t) == t - (t % HoursPerWeek)
DayOf(t) == (t % HoursPerWeek) \div HoursPerDay
\* SlateStart is a Tuesday, 12:00
Tuesday == DayOf(SlateStart)
Wednesday == Tuesday + 1

-----------------------------------------------------------------------------
(* Properties of week navigation (checked under WeekSpec)                  *)

\* C21: every temporary pick of the session carries the week the screen
\* displays (also while the reload started by a week button is pending or
\* after it has failed), and every row a submitAllPicks writes is a row of
\* the displayed week.
C21_SessionOfDisplayedWeek ==
    /\ \A k \in 1..Len(tempPicks) : tempPicks[k].week = currentWeek
    /\ \A i \in 1..Len(submitCalls) : \A k \in 1..Len(submitCalls[i].tempPicks) :
          submitCalls[i].pc = "upsert"
              => submitCalls[i].tempPicks[k].week = currentWeek

-----------------------------------------------------------------------------
(* Properties of the kickoff guard (checked under KickoffSpec)             *)

\* C27: a card press reaches handlePickSide only for a game that has not
\* kicked off, and at the step that issues the upsert of a submitAllPicks
\* every pick it carries is for a game that has not kicked off.
C27_NoWriteAfterKickoff ==
    [][/\ \A c \in pickCalls' \ pickCalls : ~isGameStarted(c.game_id, now)
       /\ \A i \in 1..Len(submitCalls) :
            (/\ submitCalls[i].pc = "getUser"
             /\ Len(submitCalls') = Len(submitCalls)
             /\ submitCalls'[i].pc = "upsert")
            => \A k \in 1..Len(submitCalls[i].tempPicks) :
                  ~isGameStarted(submitCalls[i].tempPicks[k].game_id, now)]_vars

-----------------------------------------------------------------------------
(* Properties of pick deletion (checked under MyPicksSpec)                 *)

\* C30: a delete request is sent only after the user confirmed it in the
\* dialog and only for a pick that is stored unlocked and without a result;
\* a stored pick disappears only through a delete request with its full
\* key, and a stored locked pick never disappears.
C30_DeleteOnlyUnlockedUngraded ==
    [][/\ \A pick \in deleteCalls' \ deleteCalls :
            /\ pick \in deleteDialog
            /\ \A r \in myDb :
                  SameKey(r, pick) => ~r.locked /\ r.result = NoResult
       /\ \A r \in myDb :
            (\A q \in myDb' : ~SameKey(r, q))
            => /\ ~r.locked
               /\ \E pick \in deleteCalls : SameKey(r, pick)]_vars

====
